---- MODULE Spec2Model ----
(***************************************************************************)
(* Model of src/app/components/WebRTCCall.tsx: one endpoint running the    *)
(* WebRTCCall component with the PeerConnectionManager instances it        *)
(* creates.  The relay and the remote endpoints are its environment: they  *)
(* deliver call-made, answer-made, ice-candidate and call-end, an answer   *)
(* only to an offer this endpoint has sent and candidates only from a      *)
(* peer that has sent a description (the relay keeps a sender's order).    *)
(*                                                                         *)
(* One action is one run-to-completion turn of the JavaScript event loop:  *)
(* a click handler, a socket handler, a transport callback, or the         *)
(* continuation of an async function after an await.  React batches the    *)
(* setState calls of one turn, so callStatus after a turn is the last      *)
(* value written in it; the writes themselves are kept in `writes`.       *)
(*                                                                         *)
(* RTCPeerConnection is the browser's: its signalling state machine        *)
(* (stable / have-local-offer / have-remote-offer), the rejection of       *)
(* addIceCandidate without a remote description, and the rule that the     *)
(* promises of a closed connection are never settled are the W3C WebRTC    *)
(* behaviour the component runs on.                                         *)
(*                                                                         *)
(* Not modelled: remoteStream, the mute/camera toggles and the video       *)
(* elements (no call-state effect), and unmounting the component.           *)
(***************************************************************************)
EXTENDS Integers, Sequences, FiniteSets, TLC

\* ---------------------------------------------------------------- bounds
MaxManagers == 2      \* PeerConnectionManager instances the endpoint creates
MaxMediaTasks == 2    \* getUserMedia requests pending at a time
MaxInbound == 3       \* call-made, answer-made, ice-candidate, call-end deliveries

\* ------------------------------------------------------------- vocabulary
Self == "A"                 \* the id the relay assigns to this endpoint
RemoteIds == {"B"}          \* ids of the other endpoints

NoPeer == "null"      \* remotePeerId: string | null
NoDesc == [type |-> "none", peer |-> NoPeer, session |-> 0]
NoData == [offer |-> NoDesc, callerId |-> NoPeer]   \* incomingCallData: null

CallStatus ==
  {"Idle", "Connecting...", "Incoming Call", "Waiting for answer...",
   "Connected", "Call Ended", "Media Access Denied", "Call Failed"}

VARIABLES
  currentId,         \* useState currentId
  targetId,          \* useState targetId (the input field)
  callStatus,        \* useState callStatus
  incomingCallData,  \* useState incomingCallData
  localStream,       \* useState localStream (TRUE: a MediaStream is held)
  peerManagerRef,    \* useRef peerManagerRef: 0 (null) or an index of managers
  managers,          \* every PeerConnectionManager the endpoint constructed
  mediaTasks,        \* startCall/answerCall runs suspended at await getMedia()
  offersOut,         \* environment: the peers an offer has been sent to
  trickling,         \* environment: the peers a description has arrived from
  inbound,           \* environment: number of relay messages delivered so far
  standing,          \* observation: the terminal status published by the
                     \*   latest endCall ("ended") or getMedia denial
                     \*   ("denied"), until the next click or call-made
  op,                \* observation: the turn just taken
  actor,             \* observation: the manager that turn ran on (0: none)
  writes,            \* observation: the setCallStatus calls of that turn, in order
  sent               \* observation: the events that turn handed to the socket

vars == <<currentId, targetId, callStatus, incomingCallData, localStream,
          peerManagerRef, managers, mediaTasks, offersOut, trickling,
          inbound, standing, op, actor, writes, sent>>

\* ------------------------------------------------------- RTCPeerConnection
\* new RTCPeerConnection(ICE_SERVERS).  candidates are the remote candidates
\* added; chained are the setRemoteDescription(answer) and addIceCandidate
\* calls that wait, on the connection's operations chain, behind a
\* setLocalDescription or setRemoteDescription that has not settled.
NewPc ==
  [open |-> TRUE, signalingState |-> "stable",
   localDescription |-> NoDesc, remoteDescription |-> NoDesc,
   iceConnectionState |-> "new", candidates |-> <<>>, chained |-> <<>>]

\* this.pc = null: the manager holds no transport any more
NoPc ==
  [open |-> FALSE, signalingState |-> "closed",
   localDescription |-> NoDesc, remoteDescription |-> NoDesc,
   iceConnectionState |-> "closed", candidates |-> <<>>, chained |-> <<>>]

IsOpen(m) == m.pc.open

\* pc.setRemoteDescription(answer) is accepted in have-local-offer only
AcceptsAnswer(pc) == pc.signalingState = "have-local-offer"

\* pc.addIceCandidate(candidate) rejects while remoteDescription is null
AcceptsCandidate(pc) == pc.remoteDescription # NoDesc

\* one setRemoteDescription(answer) or addIceCandidate(candidate) on the
\* transport: the transport after it (unchanged when the call rejects)
Operate(pc, x) ==
  IF x.type = "answer"
    THEN IF AcceptsAnswer(pc)
           THEN [pc EXCEPT !.remoteDescription = x, !.signalingState = "stable"]
           ELSE pc
    ELSE IF AcceptsCandidate(pc)
           THEN [pc EXCEPT !.candidates = Append(@, x)]
           ELSE pc

\* the operations chained on the transport run in order once the one ahead
\* of them has settled
RECURSIVE Settle(_, _)
Settle(pc, ops) ==
  IF ops = <<>> THEN pc ELSE Settle(Operate(pc, Head(ops)), Tail(ops))

\* the status writes of the handleAnswer runs whose chained
\* setRemoteDescription(answer) rejects (the catch of handleAnswer)
RECURSIVE SettleWrites(_, _)
SettleWrites(pc, ops) ==
  IF ops = <<>> THEN <<>>
  ELSE (IF Head(ops).type = "answer" /\ ~AcceptsAnswer(pc)
          THEN <<"Call Failed">> ELSE <<>>)
       \o SettleWrites(Operate(pc, Head(ops)), Tail(ops))

\* the description pc.createOffer() / pc.createAnswer() of session i of peer p yields
SessionDescription(type, p, i) == [type |-> type, peer |-> p, session |-> i]

\* The value React shows after a turn: the last write of the turn, if any.
Publish(old, w) == IF w = <<>> THEN old ELSE w[Len(w)]

\* socket.emit(event, {..., targetId})
Emit(event, body, target) == [event |-> event, body |-> body, targetId |-> target]

\* ------------------------------------------------- PeerConnectionManager
\* constructor + initPeerConnection: pc is the new RTCPeerConnection.
\* step is where the manager's createOffer/handleOffer run is suspended and
\* arg the offer handleOffer was called with.  Observation only: cancelled
\* (endCall ran while the run was suspended) and offered (the candidates
\* handed to this manager's transport, in order).
initPeerConnection(isInitiator, remotePeerId) ==
  [pc |-> NewPc, isInitiator |-> isInitiator, remotePeerId |-> remotePeerId,
   step |-> "idle", arg |-> NoDesc, cancelled |-> FALSE, offered |-> <<>>]

initWrites == <<"Connecting...">>

\* a close() that drops the transport and forgets to clear remotePeerId
closeKeepsPeer(m) ==
  [m EXCEPT !.pc = NoPc,
            !.step = "idle", !.arg = NoDesc, !.cancelled = FALSE, !.offered = <<>>]

\* close(): the transport is closed and dropped, remotePeerId cleared.  The
\* suspended run of a closed transport never resumes, so its position and
\* the observations kept for the open transport go with it.
close(m) ==
  [m EXCEPT !.pc = NoPc, !.remotePeerId = NoPeer,
            !.step = "idle", !.arg = NoDesc, !.cancelled = FALSE, !.offered = <<>>]

closeWrites == <<"Idle">>

\* the entry guard of createOffer and handleOffer
HasSession(m) == IsOpen(m) /\ m.remotePeerId # NoPeer /\ m.remotePeerId # ""

\* createOffer(): entry guard, then suspended at await this.pc.createOffer()
createOffer(m) ==
  IF ~HasSession(m) THEN m ELSE [m EXCEPT !.step = "createOffer"]

\* handleOffer(offer): entry guard, then suspended at
\* await this.pc.setRemoteDescription(offer)
handleOffer(m, offer) ==
  IF ~HasSession(m) THEN m ELSE [m EXCEPT !.step = "setRemoteOffer", !.arg = offer]

\* a description is being applied: what is called on the transport meanwhile
\* is chained behind it
Applying(m) == m.step \in {"setLocalOffer", "setRemoteOffer"}

\* The effects every turn has in common: the status React publishes and the
\* record of the turn with the events it handed to the socket.
Commit(turn, i, statusWrites, emitted) ==
  /\ callStatus' = Publish(callStatus, statusWrites)
  /\ op' = turn
  /\ actor' = i
  /\ writes' = statusWrites
  /\ sent' = emitted

\* a turn started by a message from the relay, which announces the
\* endpoint's id before it forwards anything to it
Delivery ==
  /\ currentId # ""
  /\ inbound < MaxInbound
  /\ inbound' = inbound + 1
  /\ standing' = IF op' = "call-made" THEN "" ELSE standing

\* a turn started by a click of the user, after which `mark` stands
Click(mark) ==
  /\ standing' = mark
  /\ UNCHANGED inbound

\* a turn started by the browser (a promise settles, a transport event
\* fires) or by typing into the target field
Local == UNCHANGED <<inbound, standing>>

Init ==
  /\ currentId = ""
  /\ targetId = ""
  /\ callStatus = "Idle"
  /\ incomingCallData = NoData
  /\ localStream = FALSE
  /\ peerManagerRef = 0
  /\ managers = <<>>
  /\ mediaTasks = <<>>
  /\ offersOut = {}
  /\ trickling = {}
  /\ inbound = 0
  /\ standing = ""
  /\ op = "init"
  /\ actor = 0
  /\ writes = <<>>
  /\ sent = <<>>

\* ---------------------------------------------------------------- intents
\* the input's onChange: the user types a peer's id, or clears the field
SetTargetId(t) ==
  /\ t # targetId
  /\ targetId' = t
  /\ Commit("setTargetId", 0, <<>>, <<>>)
  /\ Local
  /\ UNCHANGED <<currentId, incomingCallData, localStream, peerManagerRef,
                 managers, mediaTasks, offersOut, trickling>>

\* the tail of startCall once a stream is at hand: new manager, init, createOffer
StartWith(target) ==
  /\ Len(managers) < MaxManagers
  /\ managers' = Append(managers, createOffer(initPeerConnection(TRUE, target)))
  /\ peerManagerRef' = Len(managers) + 1

\* the tail of answerCall once a stream is at hand: new manager, init, handleOffer
AnswerWith(data) ==
  /\ Len(managers) < MaxManagers
  /\ managers' = Append(managers,
                        handleOffer(initPeerConnection(FALSE, data.callerId), data.offer))
  /\ peerManagerRef' = Len(managers) + 1

\* startCall, up to its first await (the Call button is disabled in
\* Connected and Waiting for answer...)
StartCall ==
  /\ callStatus \notin {"Connected", "Waiting for answer..."}
  /\ IF targetId = ""
       THEN /\ Commit("startCall", 0, <<"Idle">>, <<>>)
            /\ UNCHANGED <<managers, peerManagerRef, mediaTasks>>
       ELSE IF localStream
         THEN /\ StartWith(targetId)
              /\ Commit("startCall", Len(managers) + 1, initWrites, <<>>)
              /\ UNCHANGED mediaTasks
         ELSE /\ Len(mediaTasks) < MaxMediaTasks
              /\ mediaTasks' = Append(mediaTasks,
                    [kind |-> "start", targetId |-> targetId, data |-> NoData])
              /\ Commit("startCall", 0, <<>>, <<>>)
              /\ UNCHANGED <<managers, peerManagerRef>>
  /\ Click("")
  /\ UNCHANGED <<currentId, targetId, incomingCallData, localStream, offersOut,
                 trickling>>

\* answerCall, up to its first await (the Answer button is rendered only
\* while incomingCallData is set and the status is Incoming Call)
AnswerCall ==
  /\ incomingCallData # NoData
  /\ callStatus = "Incoming Call"
  /\ IF localStream
       THEN /\ AnswerWith(incomingCallData)
            /\ Commit("answerCall", Len(managers) + 1, initWrites, <<>>)
            /\ UNCHANGED mediaTasks
       ELSE /\ Len(mediaTasks) < MaxMediaTasks
            /\ mediaTasks' = Append(mediaTasks,
                  [kind |-> "answer", targetId |-> targetId, data |-> incomingCallData])
            /\ Commit("answerCall", 0, <<>>, <<>>)
            /\ UNCHANGED <<managers, peerManagerRef>>
  /\ Click("")
  /\ UNCHANGED <<currentId, targetId, incomingCallData, localStream, offersOut,
                 trickling>>

\* getMedia: getUserMedia resolved; startCall/answerCall resumes with the
\* values it captured when it was clicked
GetMediaGranted ==
  /\ mediaTasks # <<>>
  /\ LET t == Head(mediaTasks) IN
       IF t.kind = "start" THEN StartWith(t.targetId) ELSE AnswerWith(t.data)
  /\ mediaTasks' = Tail(mediaTasks)
  /\ localStream' = TRUE
  /\ Commit("getMediaGranted", Len(managers) + 1, initWrites, <<>>)
  /\ Local
  /\ UNCHANGED <<currentId, targetId, incomingCallData, offersOut, trickling>>

getMediaDeniedWrites == <<"Media Access Denied">>

\* getMedia: getUserMedia rejected; the intent returns without a manager
GetMediaDenied ==
  /\ mediaTasks # <<>>
  /\ mediaTasks' = Tail(mediaTasks)
  /\ Commit("getMediaDenied", 0, getMediaDeniedWrites, <<>>)
  /\ standing' = "denied"
  /\ UNCHANGED inbound
  /\ UNCHANGED <<currentId, targetId, incomingCallData, localStream,
                 peerManagerRef, managers, offersOut, trickling>>

\* the Reject button
Reject ==
  /\ incomingCallData # NoData
  /\ callStatus = "Incoming Call"
  /\ incomingCallData' = NoData
  /\ Commit("reject", 0, <<"Idle">>, <<>>)
  /\ Click("")
  /\ UNCHANGED <<currentId, targetId, localStream, peerManagerRef, managers,
                 mediaTasks, offersOut, trickling>>

\* endCall: the peer the call-end event is addressed to (NoPeer: none sent)
endCallPeerId ==
  IF targetId # "" THEN targetId ELSE incomingCallData.callerId

\* endCall is clicked before any transport has reported a state change
EndsUntouchedCall ==
  /\ callStatus \in {"Connecting...", "Waiting for answer...", "Incoming Call"}
  /\ \A i \in DOMAIN managers :
       IsOpen(managers[i]) /\ managers[i].pc.iceConnectionState = "new"

\* endCall (the hang-up button is disabled in Idle and Call Ended)
EndCall ==
  LET ref == peerManagerRef
      closed == IF ref # 0 THEN [managers EXCEPT ![ref] = close(@)] ELSE managers
  IN
  /\ callStatus \notin {"Idle", "Call Ended"}
  /\ managers' = [i \in DOMAIN closed |->
                    [closed[i] EXCEPT !.cancelled = @ \/ closed[i].step # "idle"]]
  /\ peerManagerRef' = 0
  /\ targetId' = ""
  /\ incomingCallData' = NoData
  /\ Commit("endCall", peerManagerRef,
            (IF ref # 0 THEN closeWrites ELSE <<>>) \o <<"Call Ended">>,
            IF endCallPeerId # NoPeer
              THEN <<Emit("call-end", NoDesc, endCallPeerId)>> ELSE <<>>)
  /\ Click(IF EndsUntouchedCall THEN "ended" ELSE "")
  /\ UNCHANGED <<currentId, localStream, mediaTasks, offersOut, trickling>>

\* ------------------------------------------- negotiation continuations
\* A suspended run resumes only while its transport is open: the browser
\* leaves the promises of a closed RTCPeerConnection pending for ever.
Suspended(i, step) ==
  /\ i \in DOMAIN managers
  /\ IsOpen(managers[i])
  /\ managers[i].step = step

SetManager(i, m) == managers' = [managers EXCEPT ![i] = m]

\* createOffer: pc.createOffer() resolved -> await pc.setLocalDescription(offer)
CreateOfferResolved(i) ==
  /\ Suspended(i, "createOffer")
  /\ SetManager(i, [managers[i] EXCEPT !.step = "setLocalOffer"])
  /\ Commit("createOfferResolved", i, <<>>, <<>>)
  /\ Local
  /\ UNCHANGED <<currentId, targetId, incomingCallData, localStream,
                 peerManagerRef, mediaTasks, offersOut, trickling>>

\* what createOffer does once setLocalDescription(offer) has resolved
offerSentWrites == <<"Waiting for answer...">>

offerSent(m, offer) == <<Emit("call-user", offer, m.remotePeerId)>>

\* createOffer: pc.setLocalDescription(offer) resolved -> emit, status
SetLocalOfferResolved(i) ==
  LET m == managers[i]
      offer == SessionDescription("offer", Self, i)
      applied == [m.pc EXCEPT !.localDescription = offer,
                              !.signalingState = "have-local-offer",
                              !.chained = <<>>]
  IN
  /\ Suspended(i, "setLocalOffer")
  /\ SetManager(i, [m EXCEPT !.step = "idle", !.pc = Settle(applied, m.pc.chained)])
  /\ offersOut' = offersOut \cup {offerSent(m, offer)[k].targetId :
                                    k \in 1..Len(offerSent(m, offer))}
  /\ Commit("setLocalOfferResolved", i,
            offerSentWrites \o SettleWrites(applied, m.pc.chained), offerSent(m, offer))
  /\ Local
  /\ UNCHANGED <<currentId, targetId, incomingCallData, localStream,
                 peerManagerRef, mediaTasks, trickling>>

negotiationFailedWrites == <<"Call Failed">>

\* createOffer: one of its awaits rejected -> catch
CreateOfferFailed(i) ==
  LET m == managers[i]
      rejected == [m.pc EXCEPT !.chained = <<>>]
  IN
  /\ \/ Suspended(i, "createOffer")
     \/ Suspended(i, "setLocalOffer")
  /\ SetManager(i, [m EXCEPT !.step = "idle", !.pc = Settle(rejected, m.pc.chained)])
  /\ Commit("createOfferFailed", i,
            negotiationFailedWrites \o SettleWrites(rejected, m.pc.chained), <<>>)
  /\ Local
  /\ UNCHANGED <<currentId, targetId, incomingCallData, localStream,
                 peerManagerRef, mediaTasks, offersOut, trickling>>

\* handleOffer: pc.setRemoteDescription(offer) resolved -> await pc.createAnswer()
SetRemoteOfferResolved(i) ==
  LET m == managers[i]
      applied == [m.pc EXCEPT !.remoteDescription = m.arg,
                              !.signalingState = "have-remote-offer",
                              !.chained = <<>>]
  IN
  /\ Suspended(i, "setRemoteOffer")
  /\ SetManager(i, [m EXCEPT !.step = "createAnswer", !.pc = Settle(applied, m.pc.chained)])
  /\ Commit("setRemoteOfferResolved", i, SettleWrites(applied, m.pc.chained), <<>>)
  /\ Local
  /\ UNCHANGED <<currentId, targetId, incomingCallData, localStream,
                 peerManagerRef, mediaTasks, offersOut, trickling>>

\* handleOffer: pc.createAnswer() resolved -> await pc.setLocalDescription(answer)
CreateAnswerResolved(i) ==
  /\ Suspended(i, "createAnswer")
  /\ SetManager(i, [managers[i] EXCEPT !.step = "setLocalAnswer"])
  /\ Commit("createAnswerResolved", i, <<>>, <<>>)
  /\ Local
  /\ UNCHANGED <<currentId, targetId, incomingCallData, localStream,
                 peerManagerRef, mediaTasks, offersOut, trickling>>

\* what handleOffer does once setLocalDescription(answer) has resolved
answerSentWrites == <<"Connected">>

answerSent(m, answer) == <<Emit("answer-call", answer, m.remotePeerId)>>

\* handleOffer: pc.setLocalDescription(answer) resolved -> emit, status;
\* handleOffer returns and answerCall clears incomingCallData
SetLocalAnswerResolved(i) ==
  LET m == managers[i]
      answer == SessionDescription("answer", Self, i)
  IN
  /\ Suspended(i, "setLocalAnswer")
  /\ SetManager(i, [m EXCEPT !.step = "idle",
                             !.pc.localDescription = answer,
                             !.pc.signalingState = "stable"])
  /\ incomingCallData' = NoData
  /\ Commit("setLocalAnswerResolved", i, answerSentWrites, answerSent(m, answer))
  /\ Local
  /\ UNCHANGED <<currentId, targetId, localStream, peerManagerRef, mediaTasks,
                 offersOut, trickling>>

\* handleOffer: one of its awaits rejected -> catch; answerCall then clears
\* incomingCallData
HandleOfferFailed(i) ==
  LET m == managers[i]
      rejected == [m.pc EXCEPT !.chained = <<>>]
  IN
  /\ \/ Suspended(i, "setRemoteOffer")
     \/ Suspended(i, "createAnswer")
     \/ Suspended(i, "setLocalAnswer")
  /\ SetManager(i, [m EXCEPT !.step = "idle", !.pc = Settle(rejected, m.pc.chained)])
  /\ incomingCallData' = NoData
  /\ Commit("handleOfferFailed", i,
            negotiationFailedWrites \o SettleWrites(rejected, m.pc.chained), <<>>)
  /\ Local
  /\ UNCHANGED <<currentId, targetId, localStream, peerManagerRef, mediaTasks,
                 offersOut, trickling>>

\* -------------------------------------------------------- socket handlers
\* socket.on('me'): the relay announces the endpoint's id once it is connected
Me ==
  /\ currentId = ""
  /\ currentId' = Self
  /\ Commit("me", 0, <<>>, <<>>)
  /\ Local
  /\ UNCHANGED <<targetId, incomingCallData, localStream, peerManagerRef,
                 managers, mediaTasks, offersOut, trickling>>

\* socket.on('call-made'): a remote endpoint's offer arrives
CallMade(callerId) ==
  /\ incomingCallData' = [offer |-> SessionDescription("offer", callerId, inbound + 1),
                          callerId |-> callerId]
  /\ trickling' = trickling \cup {callerId}
  /\ Commit("call-made", 0, <<"Incoming Call">>, <<>>)
  /\ Delivery
  /\ UNCHANGED <<currentId, targetId, localStream, peerManagerRef, managers,
                 mediaTasks, offersOut>>

\* a handleAnswer whose transport would take any answer, in any signalling state
handleAnswerOverwriting(m, answer) ==
  IF ~IsOpen(m) THEN m
  ELSE IF Applying(m) THEN [m EXCEPT !.pc.chained = Append(@, answer)]
  ELSE [m EXCEPT !.pc.remoteDescription = answer, !.pc.signalingState = "stable"]

\* handleAnswer(answer): the manager after it
handleAnswer(m, answer) ==
  IF ~IsOpen(m) THEN m
  ELSE IF Applying(m) THEN [m EXCEPT !.pc.chained = Append(@, answer)]
  ELSE [m EXCEPT !.pc = Operate(@, answer)]

\* handleAnswer(answer): its status writes (the catch)
handleAnswerWrites(m) ==
  IF IsOpen(m) /\ ~Applying(m) /\ ~AcceptsAnswer(m.pc)
    THEN negotiationFailedWrites ELSE <<>>

\* socket.on('answer-made'): an answer of a peer an offer was sent to
AnswerMade(from) ==
  LET ref == peerManagerRef
      answer == SessionDescription("answer", from, inbound + 1)
  IN
  /\ from \in offersOut
  /\ trickling' = trickling \cup {from}
  /\ IF ref # 0
       THEN /\ SetManager(ref, handleAnswer(managers[ref], answer))
            /\ Commit("answer-made", ref, handleAnswerWrites(managers[ref]), <<>>)
       ELSE /\ UNCHANGED managers
            /\ Commit("answer-made", 0, <<>>, <<>>)
  /\ Delivery
  /\ UNCHANGED <<currentId, targetId, incomingCallData, localStream,
                 peerManagerRef, mediaTasks, offersOut>>

\* a handleIceCandidate that gives the call up when addIceCandidate rejects
handleIceCandidateFatal(m, candidate) ==
  IF ~IsOpen(m) THEN m
  ELSE IF Applying(m)
    THEN [m EXCEPT !.pc.chained = Append(@, candidate), !.offered = Append(@, candidate)]
  ELSE IF AcceptsCandidate(m.pc)
    THEN [m EXCEPT !.pc = Operate(@, candidate), !.offered = Append(@, candidate)]
    ELSE close(m)

\* handleIceCandidate(candidate): the manager after it
handleIceCandidate(m, candidate) ==
  IF ~IsOpen(m) THEN m
  ELSE IF Applying(m)
    THEN [m EXCEPT !.pc.chained = Append(@, candidate), !.offered = Append(@, candidate)]
    ELSE [m EXCEPT !.pc = Operate(@, candidate), !.offered = Append(@, candidate)]

\* socket.on('ice-candidate'): a candidate of a peer that has sent a description
IceCandidate(from) ==
  LET ref == peerManagerRef
      candidate == [type |-> "candidate", peer |-> from, session |-> inbound + 1]
  IN
  /\ from \in trickling
  /\ IF ref # 0
       THEN SetManager(ref, handleIceCandidate(managers[ref], candidate))
       ELSE UNCHANGED managers
  /\ Commit("ice-candidate", peerManagerRef, <<>>, <<>>)
  /\ Delivery
  /\ UNCHANGED <<currentId, targetId, incomingCallData, localStream,
                 peerManagerRef, mediaTasks, offersOut, trickling>>

\* 'call-end' from a peer in contact: the component registers no handler for it
CallEnd(from) ==
  /\ from \in trickling \cup offersOut
  /\ Commit("call-end", 0, <<>>, <<>>)
  /\ Delivery
  /\ UNCHANGED <<currentId, targetId, incomingCallData, localStream,
                 peerManagerRef, managers, mediaTasks, offersOut, trickling>>

\* ----------------------------------------------------- transport callbacks
\* pc.onicecandidate: what the handler emits for a gathered candidate
onicecandidate(m, candidate) ==
  IF m.remotePeerId # NoPeer /\ m.remotePeerId # ""
    THEN <<Emit("ice-candidate", candidate, m.remotePeerId)>> ELSE <<>>

\* a local candidate was gathered (gathering starts with the local description)
OnIceCandidate(i) ==
  LET m == managers[i]
      candidate == [type |-> "candidate", peer |-> Self, session |-> i]
  IN
  /\ i \in DOMAIN managers
  /\ IsOpen(m)
  /\ m.pc.localDescription # NoDesc
  /\ UNCHANGED managers
  /\ Commit("onicecandidate", i, <<>>, onicecandidate(m, candidate))
  /\ Local
  /\ UNCHANGED <<currentId, targetId, incomingCallData, localStream,
                 peerManagerRef, mediaTasks, offersOut, trickling>>

\* both descriptions are applied on this transport
Negotiated(m) ==
  /\ IsOpen(m)
  /\ m.pc.localDescription # NoDesc
  /\ m.pc.remoteDescription # NoDesc
  /\ m.pc.signalingState = "stable"

\* pc.oniceconnectionstatechange: the manager after the handler
oniceconnectionstatechange(m, state) ==
  IF ~IsOpen(m) THEN m
  ELSE IF state \in {"disconnected", "failed"}
    THEN close([m EXCEPT !.pc.iceConnectionState = state])
    ELSE [m EXCEPT !.pc.iceConnectionState = state]

\* a handler that publishes nothing when the transport connects
iceWritesSilent(m, state) ==
  IF ~IsOpen(m) THEN <<>>
  ELSE IF state \in {"disconnected", "failed"} THEN <<"Call Ended">> \o closeWrites
  ELSE <<>>

\* pc.oniceconnectionstatechange: the status writes of the handler
iceWrites(m, state) ==
  IF ~IsOpen(m) THEN <<>>
  ELSE IF state = "connected" THEN <<"Connected">>
  ELSE IF state \in {"disconnected", "failed"} THEN <<"Call Ended">> \o closeWrites
  ELSE <<>>

\* the transport reports a new iceConnectionState: connected or failed once
\* negotiated, disconnected once connected
OnIceState(i, state) ==
  LET m == managers[i] IN
  /\ i \in DOMAIN managers
  /\ IsOpen(m)
  /\ CASE state = "connected" -> m.pc.iceConnectionState = "new" /\ Negotiated(m)
       [] state = "failed" -> m.pc.iceConnectionState = "new" /\ Negotiated(m)
       [] state = "disconnected" -> m.pc.iceConnectionState = "connected"
  /\ SetManager(i, oniceconnectionstatechange(m, state))
  /\ Commit("ice-" \o state, i, iceWrites(m, state), <<>>)
  /\ Local
  /\ UNCHANGED <<currentId, targetId, incomingCallData, localStream,
                 peerManagerRef, mediaTasks, offersOut, trickling>>

Next ==
  \/ Me
  \/ \E t \in RemoteIds \cup {""} : SetTargetId(t)
  \/ StartCall
  \/ AnswerCall
  \/ GetMediaGranted
  \/ GetMediaDenied
  \/ Reject
  \/ EndCall
  \/ \E r \in RemoteIds : CallMade(r)
  \/ \E r \in RemoteIds : AnswerMade(r)
  \/ \E r \in RemoteIds : IceCandidate(r)
  \/ \E r \in RemoteIds : CallEnd(r)
  \/ \E i \in 1..MaxManagers :
       \/ CreateOfferResolved(i)
       \/ SetLocalOfferResolved(i)
       \/ CreateOfferFailed(i)
       \/ SetRemoteOfferResolved(i)
       \/ CreateAnswerResolved(i)
       \/ SetLocalAnswerResolved(i)
       \/ HandleOfferFailed(i)
       \/ OnIceCandidate(i)
       \/ \E state \in {"connected", "disconnected", "failed"} : OnIceState(i, state)

Spec == Init /\ [][Next]_vars

\* ------------------------------------------------- the two-party scenario
\* One call and nothing else: the endpoint either starts it (start -> offer
\* sent -> answer applied -> connected) or answers it (call-made -> answer ->
\* answer sent -> connected); no negotiation step fails and no intent is
\* issued once the call is under way (a denied getUserMedia is tried again;
\* the target field may be edited at any time).
NoCallYet == managers = <<>> /\ mediaTasks = <<>> /\ incomingCallData = NoData

ScenarioNext ==
  \/ Me
  \/ \E t \in RemoteIds \cup {""} : SetTargetId(t)
  \/ NoCallYet /\ targetId # "" /\ StartCall
  \/ NoCallYet /\ CallMade("B")
  \/ managers = <<>> /\ mediaTasks = <<>> /\ AnswerCall
  \/ GetMediaGranted
  \/ GetMediaDenied
  \/ managers # <<>> /\ managers[1].pc.remoteDescription = NoDesc /\ AnswerMade("B")
  \/ IceCandidate("B")
  \/ CreateOfferResolved(1)
  \/ SetLocalOfferResolved(1)
  \/ SetRemoteOfferResolved(1)
  \/ CreateAnswerResolved(1)
  \/ SetLocalAnswerResolved(1)
  \/ OnIceCandidate(1)
  \/ OnIceState(1, "connected")

ScenarioSpec == Init /\ [][ScenarioNext]_vars

\* ------------------------------------------------------------------ claims
OpenManagers == {i \in DOMAIN managers : IsOpen(managers[i])}

\* C1: in a run start -> offer sent -> answer applied -> transport connected
\* (and in the responder's run of the same call) the status ends Connected
\* and exactly one transport was created at the endpoint.
C1_ConnectedWithOneTransport ==
  (\E i \in DOMAIN managers : managers[i].pc.iceConnectionState = "connected")
    => /\ callStatus = "Connected"
       /\ Len(managers) = 1
       /\ OpenManagers = {1}

\* C1 witness: the initiator's transport has connected after its answer arrived.
C1_Witness ==
  /\ op = "ice-connected"
  /\ managers[1].isInitiator
  /\ managers[1].pc.remoteDescription.type = "answer"
  /\ callStatus = "Connected"

\* C2: after reject() in Incoming Call the status is Idle, the pending offer
\* is cleared and no transport is allocated.
C2_RejectLeavesNoTransport ==
  op = "reject"
    => /\ callStatus = "Idle"
       /\ incomingCallData = NoData
       /\ OpenManagers = {}

\* C3: after end() in Connecting, Waiting for answer or Incoming Call, before
\* any transport state change, the status is Call Ended and stays so until a
\* new click or a new call-made.
C3_EndedStaysEnded ==
  standing = "ended" => callStatus = "Call Ended"

\* C4: when the transport reports failed or disconnected, the status is
\* written once, to Call Ended, and the transport is closed.
C4_FailureEndsOnce ==
  op \in {"ice-failed", "ice-disconnected"}
    => /\ callStatus = "Call Ended"
       /\ writes = <<"Call Ended">>
       /\ ~IsOpen(managers[actor])

\* C5: at most one transport is open at any time.
C5_AtMostOneTransport ==
  Cardinality(OpenManagers) <= 1

\* C6: once the remote description of an open transport is set, every
\* candidate that was handed to it, before or after, has been added exactly
\* once and in arrival order.
C6_CandidatesBufferedAndApplied ==
  \A i \in DOMAIN managers :
    (IsOpen(managers[i]) /\ managers[i].pc.remoteDescription # NoDesc)
      => managers[i].pc.candidates = managers[i].offered

\* C7: the remote description of a transport, once set, is never replaced.
C7_RemoteDescriptionSetOnce ==
  [][\A i \in DOMAIN managers :
       (/\ IsOpen(managers[i])
        /\ managers[i].pc.remoteDescription # NoDesc
        /\ IsOpen(managers'[i]))
         => managers'[i].pc.remoteDescription = managers[i].pc.remoteDescription]_vars

\* C7 witness: a second answer was delivered to a transport whose remote
\* description is the first answer, and was refused.
C7_Witness ==
  /\ op = "answer-made"
  /\ actor # 0
  /\ IsOpen(managers[actor])
  /\ managers[actor].pc.remoteDescription.type = "answer"
  /\ managers[actor].pc.remoteDescription.session < inbound
  /\ writes = negotiationFailedWrites

\* C8: a denied getUserMedia creates no transport and publishes Media Access
\* Denied, which stands until the next click or call-made.
C8_DeniedStaysDenied ==
  [][/\ GetMediaDenied => (managers' = managers /\ callStatus' = "Media Access Denied")
     /\ standing' = "denied" => callStatus' = "Media Access Denied"]_vars

\* the remote peer of the call endCall ends: the transport's, or the caller
\* of the pending offer
CallPeer ==
  IF peerManagerRef # 0 /\ IsOpen(managers[peerManagerRef])
    THEN managers[peerManagerRef].remotePeerId
    ELSE incomingCallData.callerId

\* C9: end() in Connected, Waiting for answer, Incoming Call or Connecting
\* sends exactly one call-end, to the remote peer of the call, and leaves no
\* transport open.
C9_EndSendsOneCallEnd ==
  [][(EndCall /\ callStatus \in {"Connected", "Waiting for answer...",
                                 "Incoming Call", "Connecting..."})
       => /\ sent' = <<Emit("call-end", NoDesc, CallPeer)>>
          /\ OpenManagers' = {}]_vars

Continuations ==
  {"createOfferResolved", "setLocalOfferResolved", "createOfferFailed",
   "setRemoteOfferResolved", "createAnswerResolved", "setLocalAnswerResolved",
   "handleOfferFailed"}

\* C10: a negotiation that was suspended when end() ran has its transport
\* closed, and if it resumes it sends nothing and writes no status.
C10_EndDiscardsNegotiation ==
  /\ \A i \in DOMAIN managers : managers[i].cancelled => ~IsOpen(managers[i])
  /\ (op \in Continuations /\ managers[actor].cancelled)
       => (sent = <<>> /\ writes = <<>>)

\* C11: when createOffer or handleOffer fails, the status is Call Failed and
\* the transport of that attempt is closed; no transport is open while the
\* status is Call Failed.
C11_FailedAttemptIsClosed ==
  /\ op \in {"createOfferFailed", "handleOfferFailed"}
       => (callStatus = "Call Failed" /\ ~IsOpen(managers[actor]))
  /\ callStatus = "Call Failed" => OpenManagers = {}

\* C12: Connected is written only by the turn in which a transport reports
\* iceConnectionState connected, and while the status is Connected the
\* current transport has reported connected.
C12_ConnectedOnlyWhenTransportConnected ==
  /\ (\E k \in DOMAIN writes : writes[k] = "Connected") => op = "ice-connected"
  /\ callStatus = "Connected"
       => /\ peerManagerRef # 0
          /\ managers[peerManagerRef].pc.iceConnectionState = "connected"

\* C13: an offer is pending only while the status is Incoming Call, and none
\* is pending once answerCall has run to its end or Reject was clicked.
C13_PendingOfferOnlyWhileIncoming ==
  /\ incomingCallData # NoData => callStatus = "Incoming Call"
  /\ op \in {"reject", "setLocalAnswerResolved", "handleOfferFailed"}
       => incomingCallData = NoData

\* C14: a call-end that arrives from the remote peer while a transport is
\* open closes the transport and sets the status to Call Ended.
C14_RemoteCallEndTearsDown ==
  [][((\E r \in RemoteIds : CallEnd(r)) /\ OpenManagers # {})
       => (callStatus' = "Call Ended" /\ OpenManagers' = {})]_vars

\* C15: while the relay has not announced the endpoint's id, no transport
\* has been created and no offer has been handed to the socket.
C15_NoCallBeforeIdentity ==
  currentId = "" => (managers = <<>> /\ offersOut = {})

\* C16: the turn that handles an inbound ice-candidate writes no status,
\* sends nothing, and opens or closes no transport; with no current manager
\* it changes nothing of the call at all.
C16_CandidateLeavesCallAlone ==
  [][(\E r \in RemoteIds : IceCandidate(r))
       => /\ callStatus' = callStatus
          /\ writes' = <<>>
          /\ sent' = <<>>
          /\ OpenManagers' = OpenManagers
          /\ UNCHANGED <<peerManagerRef, incomingCallData, targetId, mediaTasks>>
          /\ peerManagerRef = 0 => UNCHANGED managers]_vars

\* C16 witness: a candidate was handed to an open transport that has no
\* remote description, addIceCandidate rejected it, and the call goes on.
C16_Witness ==
  /\ op = "ice-candidate"
  /\ actor # 0
  /\ IsOpen(managers[actor])
  /\ managers[actor].pc.remoteDescription = NoDesc
  /\ managers[actor].pc.chained = <<>>
  /\ Len(managers[actor].offered) = 1
  /\ managers[actor].pc.candidates = <<>>
  /\ callStatus = "Waiting for answer..."

\* no offer of the current manager awaits an answer: there is no manager, or
\* its transport is closed, or it is a responder's or an answered one
NoOutstandingOffer ==
  \/ peerManagerRef = 0
  \/ ~IsOpen(managers[peerManagerRef])
  \/ /\ ~Applying(managers[peerManagerRef])
     /\ ~AcceptsAnswer(managers[peerManagerRef].pc)

\* C17: an answer-made that arrives while no offer is outstanding leaves the
\* status and the managers as they were.
C17_StaleAnswerIgnored ==
  [][((\E r \in RemoteIds : AnswerMade(r)) /\ NoOutstandingOffer)
       => (callStatus' = callStatus /\ managers' = managers)]_vars

\* C18: getUserMedia yields a stream only while no stream is held, so that
\* the manager created with it is given the one track set there is.
C18_MediaAcquiredOnce ==
  [][GetMediaGranted => ~localStream]_vars

\* C19: while the status is Idle no transport is open.
C19_IdleHasNoTransport ==
  callStatus = "Idle" => OpenManagers = {}

\* C20: after every turn a manager holds a transport exactly if it holds a
\* remotePeerId, and a manager whose transport is closed is changed by no
\* later turn; a socket handler or transport callback that runs on it
\* writes no status and sends nothing.
C20_ClosedManagerIsInert ==
  [][\A i \in DOMAIN managers :
       /\ IsOpen(managers'[i]) <=> managers'[i].remotePeerId # NoPeer
       /\ ~IsOpen(managers[i])
            => /\ managers'[i] = managers[i]
               /\ (actor' = i /\ op' # "endCall") => (writes' = <<>> /\ sent' = <<>>)]_vars

\* C20 witness: an answer-made or ice-candidate was handled while the
\* current manager's transport was already closed.
C20_Witness ==
  /\ op \in {"answer-made", "ice-candidate"}
  /\ actor # 0
  /\ ~IsOpen(managers[actor])
  /\ managers[actor].remotePeerId = NoPeer

====
